---- MODULE Spec2Model ----
(***************************************************************************)
(* Model of the transaction ingestion/consumption pipeline:                *)
(*   - TransactionKafkaConsumer (packages/api/src/services/                *)
(*     kafka_consumer.py): the consumption loop, the per-record handler,   *)
(*     the message transformer and the dedup / referential guards;         *)
(*   - KafkaConnectionManager (packages/ingestion-service/                 *)
(*     ingestion-service-py/main.py): the producer connection manager;     *)
(*   - kafka_health_check (packages/api/src/routes/kafka.py).              *)
(* Spec     is the consumption pipeline.                                   *)
(* SpecConn is the connection manager and the ingestion service's routes. *)
(* SpecHealth is the pipeline with GET /health of routes/kafka.py polled.  *)
(* SpecRace is get_producer run by two threads statement by statement.    *)
(* SpecDup is the pipeline on a store that already holds two equal rows.  *)
(* SpecTransform applies the transformer to a bounded set of RawEvents.   *)
(***************************************************************************)
EXTENDS Integers, Sequences, FiniteSets, TLC

(* ------------------------------ bounds --------------------------------- *)
\* KafkaConsumer objects created by start() over a run
MaxStarts == 2
\* handler invocations over a run
MaxInv == 2
\* consumers created plus handler invocations over a run
MaxOps == 3
\* process crashes over a run
MaxCrashes == 1
\* producer handles built over a run
MaxHandles == 2
\* longest time (seconds) one connection attempt takes
MaxLatency == 0

(* ------------------------- program constants --------------------------- *)
connection_cooldown == 30
default_retry_attempts == 3
retry_delay == 2
YearMin == 1900
YearMax == 2100

(* ============================ RawEvent ================================= *)
\* The JSON payload of one record. keys is the set of keys present in the
\* payload; timeIsStr tells whether the time value is a string (a JSON null
\* or number otherwise); time is the string split at ":", each part an
\* integer literal or NaN.
\* A time-string part that int() rejects.
NaN == 0 - 1000

DateKeys == {"year", "month", "day", "time"}

RawEvent(ks, u, c, a, y, m, d, isStr, t) ==
    [keys |-> ks, user |-> u, card |-> c, amount |-> a,
     year |-> y, month |-> m, day |-> d, timeIsStr |-> isStr, time |-> t]

(* ======================= _transform_ingestion_format =================== *)
IsLeap(y) == (y % 4 = 0 /\ y % 100 # 0) \/ y % 400 = 0

DaysInMonth(y, m) ==
    IF m = 2 THEN (IF IsLeap(y) THEN 29 ELSE 28)
    ELSE IF m \in {4, 6, 9, 11} THEN 30 ELSE 31

\* datetime(year, month, day) accepts exactly the calendar dates.
ValidCalendarDate(y, m, d) ==
    /\ y >= 1 /\ y <= 9999
    /\ m >= 1 /\ m <= 12
    /\ d >= 1 /\ d <= DaysInMonth(y, m)

\* time(hour, minute) accepts hour 0..23 and minute 0..59.
ValidClock(h, mi) == h >= 0 /\ h <= 23 /\ mi >= 0 /\ mi <= 59

Fail(kind) == [ok |-> FALSE, err |-> kind]

\* An isoformat() that writes the day before the month.
IsoFormatDayFirst(dt) == <<dt.year, dt.day, dt.month, dt.hour, dt.minute, dt.second>>

\* datetime.isoformat() of a datetime with zero microseconds:
\* "YYYY-MM-DDTHH:MM:SS", kept as the sequence of its numeric components.
IsoFormat(dt) == <<dt.year, dt.month, dt.day, dt.hour, dt.minute, dt.second>>

\* datetime.fromisoformat() of such a string.
FromIsoFormat(s) ==
    [year |-> s[1], month |-> s[2], day |-> s[3], hour |-> s[4], minute |-> s[5], second |-> s[6]]

\* str() of a numeric reference.
Str(n) == ToString(n)

\* A canonical record whose amount depends on the identifier drawn.
CanonicalIdInAmount(ev, id) ==
    [ok |-> TRUE,
     data |-> [id |-> id,
               userId |-> Str(ev.user),
               creditCardId |-> Str(ev.card),
               amount |-> ev.amount + id,
               currency |-> "USD",
               transactionDate |->
                   IsoFormat([year |-> ev.year, month |-> ev.month, day |-> ev.day,
                              hour |-> ev.time[1], minute |-> ev.time[2], second |-> 0]),
               transactionType |-> "PURCHASE",
               status |-> "PENDING",
               merchantCountry |-> "US"]]

\* Lines 193-219: the canonical record of an event whose date and time were
\* accepted; seconds of the time string are not read.
Canonical(ev, id) ==
    [ok |-> TRUE,
     data |-> [id |-> id,
               userId |-> Str(ev.user),
               creditCardId |-> Str(ev.card),
               amount |-> ev.amount,
               currency |-> "USD",
               transactionDate |->
                   IsoFormat([year |-> ev.year, month |-> ev.month, day |-> ev.day,
                              hour |-> ev.time[1], minute |-> ev.time[2], second |-> 0]),
               transactionType |-> "PURCHASE",
               status |-> "PENDING",
               merchantCountry |-> "US"]]

\* A transformer that parses the time of day and checks nothing else.
TransformUnchecked(ev, id) ==
    IF "time" \in ev.keys /\ ev.timeIsStr /\ Len(ev.time) >= 2
    THEN Canonical(ev, id)
    ELSE Fail("ValueError")

\* The transformer: RawEvent -> canonical record, or a raised error.
\* id is the uuid4 drawn for this call.
TransformIngestionFormat(ev, id) ==
    IF \E f \in DateKeys : f \notin ev.keys
    THEN Fail("ValueError")
    ELSE IF ev.timeIsStr /\ Len(ev.time) < 2
    THEN Fail("ValueError")
    ELSE IF ev.timeIsStr /\ (ev.time[1] = NaN \/ ev.time[2] = NaN)
    THEN Fail("ValueError")
    ELSE IF ev.timeIsStr /\ ~ValidClock(ev.time[1], ev.time[2])
    THEN Fail("ValueError")
    ELSE IF ev.year < YearMin \/ ev.year > YearMax
    THEN Fail("ValueError")
    ELSE IF ev.month < 1 \/ ev.month > 12
    THEN Fail("ValueError")
    ELSE IF ev.day < 1 \/ ev.day > 31
    THEN Fail("ValueError")
    ELSE IF ~ValidCalendarDate(ev.year, ev.month, ev.day)
    THEN Fail("ValueError")
    ELSE IF ~ev.timeIsStr
    THEN Fail("TypeError")
    ELSE Canonical(ev, id)

(* ============================== the store ============================== *)
\* User.id values and CreditCard.id -> CreditCard.userId of the store.
Users == {"1", "2"}
CardIds == {"7", "8"}
CardOwner(c) == IF c = "7" THEN "1" ELSE "2"

\* The composite the duplicate check compares.
KeyOf(d) ==
    [userId |-> d.userId, creditCardId |-> d.creditCardId, amount |-> d.amount,
     transactionDate |-> FromIsoFormat(d.transactionDate)]

\* The row _create_transaction adds for canonical record d.
RowOf(d) ==
    [id |-> d.id, userId |-> d.userId, creditCardId |-> d.creditCardId,
     amount |-> d.amount, transactionDate |-> FromIsoFormat(d.transactionDate)]

RowKey(r) ==
    [userId |-> r.userId, creditCardId |-> r.creditCardId, amount |-> r.amount,
     transactionDate |-> r.transactionDate]

(* ======================== records on the topic ========================= *)
AllKeys == {"user", "card", "amount", "year", "month", "day", "time"}

EvGood == RawEvent(AllKeys, 1, 7, 4250, 2024, 3, 5, TRUE, <<9, 15>>)
\* same purchase, time of day given with seconds
EvGoodSec == RawEvent(AllKeys, 1, 7, 4250, 2024, 3, 5, TRUE, <<9, 15, 30>>)
EvBadMonth == RawEvent(AllKeys, 1, 7, 4250, 2024, 13, 5, TRUE, <<9, 15>>)
EvNoTime == RawEvent(AllKeys \ {"time"}, 1, 7, 4250, 2024, 3, 5, TRUE, <<>>)
\* card 8 belongs to user 2
EvWrongOwner == RawEvent(AllKeys, 1, 8, 4250, 2024, 3, 5, TRUE, <<9, 15>>)
\* card 9 does not exist
EvNoCard == RawEvent(AllKeys, 1, 9, 4250, 2024, 3, 5, TRUE, <<9, 15>>)

\* another valid purchase: user 2 with its own card
EvOther == RawEvent(AllKeys, 2, 8, 1999, 2024, 2, 29, TRUE, <<23, 59>>)

\* The topic holds two records: any of the events, then a valid or a
\* malformed one.
HeadEvents == {EvGood, EvGoodSec, EvOther, EvBadMonth, EvNoTime, EvWrongOwner, EvNoCard}
TailEvents == {EvGood, EvBadMonth}
Logs == {<<a, b>> : a \in HeadEvents, b \in TailEvents}

(* =========================== pipeline state ============================ *)
VARIABLES
    log,        \* the topic partition: the records appended, offset o at log[o+1]
    committed,  \* the group's committed offset of the partition
    store,      \* the persisted Transaction rows
    useLoop,    \* self.event_loop is set
    inst,       \* the module-level transaction_consumer: 0 (None) or its id
    running,    \* self.running of that instance
    subs,       \* the KafkaConsumer objects created, by creation index
    owner,      \* the group member the partition is assigned to, 0 for none
    wk,         \* the worker threads, thread i iterating consumer i
    hs,         \* the handler invocations in flight (_process_transaction_message)
    ninv,       \* invocations started so far
    ran,        \* the offset each invocation was started for, -1: not started
    last,       \* the invocation that returned or raised most recently
    crashes     \* process crashes so far

pvars == <<log, committed, store, useLoop, inst, running, subs, owner, wk, hs, ninv, ran, last,
          crashes>>

\* The connection manager of the ingestion service (another process).
\* Times are kept as ages: the code only ever compares
\* time.time() - self.last_connection_attempt with the cooldown, so an age
\* saturates at connection_cooldown.
VARIABLES
    producer,       \* self.producer: 0 (None) or the handle's number
    sinceAttempt,   \* time.time() - self.last_connection_attempt
    retry_attempts, \* self.retry_attempts (KAFKA_RETRY_ATTEMPTS)
    handles,        \* producer handles built and cached so far
    sinceFail,      \* time since a connection attempt last failed
    sinceExhaust,   \* time since a get_producer call last exhausted its retry
                    \* budget and raised
    pending,        \* a budget was exhausted and get_producer has opened no
                    \* connection since
    call            \* the operation that completed most recently

cvars == <<producer, sinceAttempt, retry_attempts, handles, sinceFail, sinceExhaust,
           pending, call>>

\* The API process's health route.
VARIABLES
    report          \* what GET /health of routes/kafka.py answered last

\* Two threads inside get_producer of the one kafka_manager.
VARIABLES
    callers         \* caller -> [pc, res, built, legit]

\* One call of _transform_ingestion_format.
VARIABLES
    tev,            \* the RawEvent passed in
    tres            \* what the call returned or raised

xvars == <<callers, tev, tres>>

SubIds == 1..MaxStarts
HIds == 1..MaxInv

NoSub == [st |-> "unborn", inst |-> 0, position |-> 0 - 1]
NoWorker == [st |-> "unborn", h |-> 0]
\* off: the record's offset; w: the worker that bridged it; trace: the calls
\* it made so far on the session and the consumer ("timeout" marks the
\* moment its worker stopped waiting).
NoHandler == [pc |-> "none", off |-> 0, w |-> 0, trace |-> <<>>]
NoLast == [h |-> 0, off |-> 0, trace |-> <<>>, res |-> "none"]

NSubs == Cardinality({c \in SubIds : subs[c].st # "unborn"})

\* self.consumer of instance k: the KafkaConsumer its latest start() created.
CurOf(k) ==
    LET mine == {c \in SubIds : subs[c].st # "unborn" /\ subs[c].inst = k}
    IN IF mine = {} THEN 0 ELSE CHOOSE c \in mine : \A d \in mine : d <= c

\* A loop that does not read the flag.
RunningIgnored(w) == TRUE

\* self.running as the worker of consumer w reads it: an instance that was
\* dropped by stop_transaction_consumer had its flag cleared by stop().
RunningOf(w) == IF subs[w].inst = inst THEN running ELSE FALSE

InFlight(h) == hs[h].pc # "none"

Has(trace, op) == \E i \in 1..Len(trace) : trace[i] = op

PInit ==
    /\ log \in Logs
    /\ committed = 0
    /\ store = {}
    /\ useLoop \in BOOLEAN
    /\ inst = 0
    /\ running = FALSE
    /\ subs = [c \in SubIds |-> NoSub]
    /\ owner = 0
    /\ wk = [c \in SubIds |-> NoWorker]
    /\ hs = [h \in HIds |-> NoHandler]
    /\ ninv = 0
    /\ ran = [h \in HIds |-> 0 - 1]
    /\ last = NoLast
    /\ crashes = 0

(* ============================ the broker =============================== *)
\* KafkaConsumer.close(): the member leaves the group.
CloseSub(c) ==
    /\ subs' = [subs EXCEPT ![c].st = "closed"]
    /\ owner' = IF owner = c THEN 0 ELSE owner

\* A group rebalance assigns the partition to open member c; every member's
\* position is dropped and fetched again from the committed offset.
Rebalance(c) ==
    /\ subs[c].st = "open"
    /\ owner' = c
    /\ subs' = [d \in SubIds |-> [subs[d] EXCEPT !.position = 0 - 1]]
    /\ UNCHANGED <<log, committed, store, useLoop, inst, running, wk, hs, ninv, ran, last, crashes>>
    /\ UNCHANGED <<cvars, report, xvars>>

\* The offset the next poll of consumer c returns.
FetchPos(c) == IF subs[c].position < 0 THEN committed ELSE subs[c].position

\* A start() that raises the running flag before it opens the subscription.
StartSetsRunningFirst(ok) ==
    /\ NSubs < MaxStarts
    /\ NSubs + ninv < MaxOps
    /\ LET k == IF inst = 0 THEN NSubs + 1 ELSE inst
           c == NSubs + 1
       IN /\ inst' = k
          /\ running' = TRUE
          /\ IF ok
             THEN /\ subs' = [subs EXCEPT ![c] = [st |-> "open", inst |-> k, position |-> 0 - 1]]
                  /\ wk' = [wk EXCEPT ![c] = [st |-> "poll", h |-> 0]]
             ELSE UNCHANGED <<subs, wk>>
    /\ UNCHANGED <<log, committed, store, useLoop, owner, hs, ninv, ran, last, crashes>>
    /\ UNCHANGED <<cvars, report, xvars>>

(* ============================= lifecycle =============================== *)
\* start_transaction_consumer(): creates the instance when there is none,
\* then start(): a new KafkaConsumer (ok = FALSE: its constructor raises),
\* running = True, a new thread running _consume_messages.
StartTransactionConsumer(ok) ==
    /\ NSubs < MaxStarts
    /\ NSubs + ninv < MaxOps
    /\ LET k == IF inst = 0 THEN NSubs + 1 ELSE inst
           c == NSubs + 1
       IN /\ inst' = k
          /\ IF ok
             THEN /\ subs' = [subs EXCEPT ![c] = [st |-> "open", inst |-> k, position |-> 0 - 1]]
                  /\ running' = TRUE
                  /\ wk' = [wk EXCEPT ![c] = [st |-> "poll", h |-> 0]]
             ELSE UNCHANGED <<subs, running, wk>>
    /\ UNCHANGED <<log, committed, store, useLoop, owner, hs, ninv, ran, last, crashes>>
    /\ UNCHANGED <<cvars, report, xvars>>

\* stop_transaction_consumer(): stop() (running = False, the current
\* consumer is closed, bounded join) and the instance is dropped.
StopCancellingHandlers ==
    /\ inst # 0
    /\ running' = FALSE
    /\ IF CurOf(inst) # 0
       THEN CloseSub(CurOf(inst))
       ELSE UNCHANGED <<subs, owner>>
    /\ inst' = 0
    /\ hs' = [h \in HIds |-> NoHandler]
    /\ UNCHANGED <<log, committed, store, useLoop, wk, ninv, ran, last, crashes>>
    /\ UNCHANGED <<cvars, report, xvars>>

StopTransactionConsumer ==
    /\ inst # 0
    /\ running' = FALSE
    /\ IF CurOf(inst) # 0
       THEN CloseSub(CurOf(inst))
       ELSE UNCHANGED <<subs, owner>>
    /\ inst' = 0
    /\ UNCHANGED <<log, committed, store, useLoop, wk, hs, ninv, ran, last, crashes>>
    /\ UNCHANGED <<cvars, report, xvars>>

\* The process dies: threads and coroutines are gone and the broker drops
\* the members; the topic, the committed offset and the store remain.
Crash ==
    /\ crashes < MaxCrashes
    /\ NSubs > 0
    /\ crashes' = crashes + 1
    /\ inst' = 0
    /\ running' = FALSE
    /\ owner' = 0
    /\ subs' = [c \in SubIds |-> IF subs[c].st = "unborn" THEN subs[c]
                                 ELSE [subs[c] EXCEPT !.st = "closed", !.position = 0 - 1]]
    /\ wk' = [c \in SubIds |-> IF wk[c].st = "unborn" THEN wk[c]
                               ELSE [st |-> "dead", h |-> 0]]
    /\ hs' = [h \in HIds |-> NoHandler]
    /\ UNCHANGED <<log, committed, store, useLoop, ninv, ran, last>>
    /\ UNCHANGED <<cvars, report, xvars>>

(* ======================== _consume_messages ============================ *)
\* The iterator of a closed consumer stops: the loop and the thread end.
WorkerExit(w) ==
    /\ wk[w].st = "poll"
    /\ subs[w].st = "closed"
    /\ wk' = [wk EXCEPT ![w].st = "dead"]
    /\ UNCHANGED <<log, committed, store, useLoop, inst, running, subs, owner, hs, ninv, ran, last, crashes>>
    /\ UNCHANGED <<cvars, report, xvars>>

\* _transform_ingestion_format as the handler calls it for offset o.
DataAt(o, id) == TransformIngestionFormat(log[o + 1], id)

\* Rows the duplicate query of _check_existing_transaction selects.
Matching(d) == {r \in store : RowKey(r) = KeyOf(d)}

\* for message in self.consumer: the next record is delivered and the
\* position moves behind it; with the flag cleared the loop breaks, else the
\* handler is bridged (run_coroutine_threadsafe / asyncio.run) and awaited.
Pull(w) ==
    /\ wk[w].st = "poll"
    /\ subs[w].st = "open"
    /\ owner = w
    /\ FetchPos(w) < Len(log)
    /\ subs' = [subs EXCEPT ![w].position = FetchPos(w) + 1]
    /\ IF ~RunningOf(w)
       THEN /\ wk' = [wk EXCEPT ![w].st = "dead"]
            /\ UNCHANGED <<hs, ninv, ran>>
       ELSE /\ ninv < MaxInv
            /\ NSubs + ninv < MaxOps
            /\ ninv' = ninv + 1
            /\ ran' = [ran EXCEPT ![ninv + 1] = FetchPos(w)]
            /\ hs' = [hs EXCEPT ![ninv + 1] =
                         [pc |-> "start", off |-> FetchPos(w), w |-> w, trace |-> <<>>]]
            /\ wk' = [wk EXCEPT ![w] = [st |-> "wait", h |-> ninv + 1]]
    /\ UNCHANGED <<log, committed, store, useLoop, inst, running, owner, last, crashes>>
    /\ UNCHANGED <<cvars, report, xvars>>

\* future.result(timeout=30) raises: the loop logs and continues. The
\* coroutine stays scheduled on the event loop.
Timeout(w) ==
    /\ useLoop
    /\ wk[w].st = "wait"
    /\ hs' = [hs EXCEPT ![wk[w].h].trace = hs[wk[w].h].trace \o <<"timeout">>]
    /\ wk' = [wk EXCEPT ![w] = [st |-> "poll", h |-> 0]]
    /\ UNCHANGED <<log, committed, store, useLoop, inst, running, subs, owner, ninv, ran, last, crashes>>
    /\ UNCHANGED <<cvars, report, xvars>>

(* ==================== _process_transaction_message ===================== *)
\* The canonical record of invocation h; its uuid4 is the invocation number.
DataOf(h) == DataAt(hs[h].off, h)

\* The thread that executes the handler coroutine, and with it every call
\* the coroutine makes on self.consumer: run_coroutine_threadsafe hands the
\* coroutine to the supplied loop's thread, asyncio.run keeps it in the worker.
HandlerThread(loopSupplied) == IF loopSupplied THEN "event_loop" ELSE "worker"

\* self.consumer as invocation h reads it.
SelfConsumer(h) == CurOf(subs[hs[h].w].inst)

\* self.consumer.commit() with no arguments commits the consumer's current
\* position of every partition assigned to it; on a closed consumer it raises.
CanCommit(h) == subs[SelfConsumer(h)].st = "open"

CommitResult(h) ==
    LET c == SelfConsumer(h)
    IN IF owner = c /\ subs[c].position >= 0 THEN subs[c].position ELSE committed

\* A duplicate check that looks the record up by its primary key.
CheckExistingByPrimaryKey(d) ==
    IF \E r \in store : r.id = d.id THEN "one" ELSE "none"

\* _check_existing_transaction: scalar_one_or_none of the duplicate query.
CheckExistingTransaction(d) ==
    IF Cardinality(Matching(d)) = 0 THEN "none"
    ELSE IF Cardinality(Matching(d)) = 1 THEN "one"
    ELSE "MultipleResultsFound"

\* A referential check that only looks the user up.
ValidateUserOnly(d) ==
    IF d.userId \notin Users
    THEN [ok |-> FALSE, ops |-> <<"userq">>]
    ELSE [ok |-> TRUE, ops |-> <<"userq">>]

\* _validate_user_and_card: the queries it ran and whether it raised.
ValidateUserAndCard(d) ==
    IF d.userId \notin Users
    THEN [ok |-> FALSE, ops |-> <<"userq">>]
    ELSE IF d.creditCardId \notin CardIds
    THEN [ok |-> FALSE, ops |-> <<"userq", "cardq">>]
    ELSE IF CardOwner(d.creditCardId) # d.userId
    THEN [ok |-> FALSE, ops |-> <<"userq", "cardq">>]
    ELSE [ok |-> TRUE, ops |-> <<"userq", "cardq">>]

\* A failing path that closes the session without rolling back.
UnwindWithoutRollback == <<"close">>

\* The except / finally of lines 137-143.
Unwind == <<"rollback", "close">>

\* The invocation goes on to its next await.
Goto(h, pc, ops) ==
    /\ hs' = [hs EXCEPT ![h].pc = pc, ![h].trace = hs[h].trace \o ops]
    /\ UNCHANGED <<wk, last>>

\* A loop that an error of the handler terminates.
FinishKillsWorker(h, res, ops) ==
    /\ hs' = [hs EXCEPT ![h] = NoHandler]
    /\ last' = [h |-> h, off |-> hs[h].off, trace |-> hs[h].trace \o ops, res |-> res]
    /\ wk' = [c \in SubIds |-> IF wk[c].st = "wait" /\ wk[c].h = h
                               THEN (IF res \in {"inserted", "duplicate"}
                                     THEN [st |-> "poll", h |-> 0]
                                     ELSE [st |-> "dead", h |-> 0])
                               ELSE wk[c]]

\* The invocation returns or raises; a worker still waiting for it resumes.
Finish(h, res, ops) ==
    /\ hs' = [hs EXCEPT ![h] = NoHandler]
    /\ last' = [h |-> h, off |-> hs[h].off, trace |-> hs[h].trace \o ops, res |-> res]
    /\ wk' = [c \in SubIds |-> IF wk[c].st = "wait" /\ wk[c].h = h
                               THEN [st |-> "poll", h |-> 0] ELSE wk[c]]

\* Lines 103-123: transform, a session from get_db(), the duplicate check
\* (a duplicate commits the offset and returns), the referential check.
HStart(h, okc) ==
    /\ hs[h].pc = "start"
    /\ LET r == DataOf(h)
           found == CheckExistingTransaction(r.data)
           v == ValidateUserAndCard(r.data)
       IN IF ~r.ok
          THEN /\ okc
               /\ Finish(h, r.err, <<>>)
               /\ UNCHANGED committed
          ELSE IF found = "MultipleResultsFound"
          THEN /\ okc
               /\ Finish(h, found, <<"open", "dupq">> \o Unwind)
               /\ UNCHANGED committed
          ELSE IF found = "one"
          THEN IF okc
               THEN /\ CanCommit(h)
                    /\ committed' = CommitResult(h)
                    /\ Finish(h, "duplicate", <<"open", "dupq", "kcommit", "close">>)
               ELSE /\ Finish(h, "CommitError", <<"open", "dupq", "kcommit!">> \o Unwind)
                    /\ UNCHANGED committed
          ELSE IF ~v.ok
          THEN /\ okc
               /\ Finish(h, "ReferentialError", <<"open", "dupq">> \o v.ops \o Unwind)
               /\ UNCHANGED committed
          ELSE /\ okc
               /\ Goto(h, "insert", <<"open", "dupq">> \o v.ops)
               /\ UNCHANGED committed
    /\ UNCHANGED <<log, store, useLoop, inst, running, subs, owner, ninv, ran, crashes>>
    /\ UNCHANGED <<cvars, report, xvars>>

\* An insert step that commits the offset although the store rejected the row.
HInsertCommitsOnFailure(h, ok) ==
    /\ hs[h].pc = "insert"
    /\ IF ok
       THEN /\ store' = store \cup {RowOf(DataOf(h).data)}
            /\ Goto(h, "refresh", <<"add", "dbcommit">>)
            /\ UNCHANGED committed
       ELSE /\ CanCommit(h)
            /\ committed' = CommitResult(h)
            /\ Finish(h, "PersistenceError", <<"add", "dbcommit!", "rollback", "kcommit", "close">>)
            /\ UNCHANGED store
    /\ UNCHANGED <<log, useLoop, inst, running, subs, owner, ninv, ran, crashes>>
    /\ UNCHANGED <<cvars, report, xvars>>

\* _create_transaction: session.add and session.commit (ok = FALSE: the
\* store rejects the insert).
HInsert(h, ok) ==
    /\ hs[h].pc = "insert"
    /\ IF ok
       THEN /\ store' = store \cup {RowOf(DataOf(h).data)}
            /\ Goto(h, "refresh", <<"add", "dbcommit">>)
       ELSE /\ Finish(h, "PersistenceError", <<"add", "dbcommit!">> \o Unwind)
            /\ UNCHANGED store
    /\ UNCHANGED <<log, committed, useLoop, inst, running, subs, owner, ninv, ran, crashes>>
    /\ UNCHANGED <<cvars, report, xvars>>

\* session.refresh returns, then lines 128-135: the offset commit
\* (okc = FALSE: it raises).
HCommit(h, okc) ==
    /\ hs[h].pc = "refresh"
    /\ IF okc
       THEN /\ CanCommit(h)
            /\ committed' = CommitResult(h)
            /\ Finish(h, "inserted", <<"refresh", "kcommit", "close">>)
       ELSE /\ Finish(h, "CommitError", <<"refresh", "kcommit!">> \o Unwind)
            /\ UNCHANGED committed
    /\ UNCHANGED <<log, store, useLoop, inst, running, subs, owner, ninv, ran, crashes>>
    /\ UNCHANGED <<cvars, report, xvars>>

PNext ==
    \/ \E ok \in BOOLEAN : StartTransactionConsumer(ok)
    \/ StopTransactionConsumer
    \/ Crash
    \/ \E c \in SubIds : Rebalance(c)
    \/ \E w \in SubIds : WorkerExit(w)
    \/ \E w \in SubIds : Pull(w)
    \/ \E w \in SubIds : Timeout(w)
    \/ \E h \in HIds, okc \in BOOLEAN : HStart(h, okc)
    \/ \E h \in HIds, ok \in BOOLEAN : HInsert(h, ok)
    \/ \E h \in HIds, okc \in BOOLEAN : HCommit(h, okc)

(* ======================= routes/kafka.py: GET /health ================== *)
\* The name transaction_consumer of routes/kafka.py. The from-import binds it
\* when the route module is loaded, to the value the module global of
\* kafka_consumer.py has then (None); start_transaction_consumer and
\* stop_transaction_consumer rebind the global of their own module only.
ImportedConsumer == 0

NoDetails == [initialized |-> FALSE, running |-> FALSE, thread_alive |-> FALSE,
              consumer_created |-> FALSE]

NoReport == [kind |-> "none", details |-> NoDetails, live |-> NoDetails]

\* consumer_details as lines 121-124 compute them from consumer object k.
Details(k) ==
    IF k = 0 THEN NoDetails
    ELSE [initialized |-> TRUE,
          running |-> (k = inst /\ running),
          thread_alive |-> (CurOf(k) # 0 /\ wk[CurOf(k)].st \in {"poll", "wait"}),
          consumer_created |-> CurOf(k) # 0]

\* GET /health of the API: a throwaway producer tests the broker (ok = FALSE:
\* it raises and the route answers without consumer_details), then the
\* details are read from the imported name. live: what the process-wide
\* instance would give at that moment.
KafkaHealthCheck(ok) ==
    /\ report' = IF ok
                 THEN [kind |-> "details", details |-> Details(ImportedConsumer),
                       live |-> Details(inst)]
                 ELSE [kind |-> "failed", details |-> NoDetails, live |-> Details(inst)]
    /\ UNCHANGED <<pvars, cvars, xvars>>

(* ===================== KafkaConnectionManager ========================== *)
RetryChoices == {0, 1, default_retry_attempts}

\* An age d seconds later.
Later(age, d) == IF age + d >= connection_cooldown THEN connection_cooldown ELSE age + d

\* had: a handle was cached on entry; probe: what bootstrap_connected() of
\* the cached handle did (for close: what producer.close() did); opened:
\* connections opened; fresh: what bootstrap_connected() of the handle built
\* by this call returned; pubs: producer.send calls made; res: the outcome;
\* ret: the handle returned; overall: the status the readiness route derived;
\* nearFail, nearExhaust, wasPending: sinceFail and sinceExhaust below the
\* cooldown, and pending, on entry; path: the connection states the manager
\* went through during the call, the state on entry first.
NoCall == [op |-> "none", had |-> FALSE, probe |-> "none", opened |-> 0,
           fresh |-> "none", pubs |-> 0, res |-> "none", ret |-> 0, overall |-> "none",
           nearFail |-> FALSE, nearExhaust |-> FALSE, wasPending |-> FALSE,
           path |-> <<>>]

\* The process starts with an empty manager; time.time() is far beyond the
\* cooldown window after the initial last_connection_attempt = 0.
CInit ==
    /\ producer = 0
    /\ sinceAttempt = connection_cooldown
    /\ retry_attempts \in RetryChoices
    /\ handles = 0
    /\ sinceFail = connection_cooldown
    /\ sinceExhaust = connection_cooldown
    /\ pending = FALSE
    /\ call = NoCall

\* One second passes.
Tick ==
    /\ sinceAttempt' = Later(sinceAttempt, 1)
    /\ sinceFail' = Later(sinceFail, 1)
    /\ sinceExhaust' = Later(sinceExhaust, 1)
    /\ UNCHANGED <<producer, retry_attempts, handles, pending, call>>
    /\ UNCHANGED <<pvars, report, xvars>>

\* A _create_producer that also sleeps after its last failed attempt.
CreateProducerSleepsAfterLast(fails, lat) ==
    LET opened == IF fails < retry_attempts THEN fails + 1 ELSE retry_attempts
        sleeps == IF fails < retry_attempts THEN fails ELSE retry_attempts
    IN IF retry_attempts <= 0
       THEN [out |-> "None", opened |-> 0, failed |-> 0, elapsed |-> 0, tail |-> 0]
       ELSE IF fails < retry_attempts
       THEN [out |-> "producer", opened |-> opened, failed |-> fails,
             elapsed |-> opened * lat + sleeps * retry_delay, tail |-> retry_delay + lat]
       ELSE [out |-> "raise", opened |-> opened, failed |-> fails,
             elapsed |-> opened * lat + sleeps * retry_delay, tail |-> 0]

\* _create_producer with the first `fails` attempts failing, each attempt
\* taking lat seconds: the attempts opened, whether a producer is returned,
\* None is returned (no attempt at all) or the last error is re-raised, the
\* time the call takes and the time since its last failed attempt.
CreateProducer(fails, lat) ==
    LET opened == IF fails < retry_attempts THEN fails + 1 ELSE retry_attempts
        sleeps == IF fails < retry_attempts THEN fails ELSE retry_attempts - 1
    IN IF retry_attempts <= 0
       THEN [out |-> "None", opened |-> 0, failed |-> 0, elapsed |-> 0, tail |-> 0]
       ELSE IF fails < retry_attempts
       THEN [out |-> "producer", opened |-> opened, failed |-> fails,
             elapsed |-> opened * lat + sleeps * retry_delay, tail |-> retry_delay + lat]
       ELSE [out |-> "raise", opened |-> opened, failed |-> fails,
             elapsed |-> opened * lat + sleeps * retry_delay, tail |-> 0]

\* Whether get_producer, entered with no usable handle, fails fast.
InCooldown == sinceAttempt < connection_cooldown

\* time.time() - self.last_connection_attempt when a get_producer call that
\* connected returns after `elapsed` seconds: the stamp is the clock reading
\* taken on entry.
AttemptAge(elapsed) == Later(0, elapsed)

\* A get_producer that keeps the cached handle whatever its probe does.
ProbeNeverDiscards(probe) == FALSE

\* Whether the probe of the cached handle makes get_producer discard it:
\* only an exception does, the value bootstrap_connected() returns is not read.
ProbeDiscards(probe) == probe = "raise"

\* A get_producer that starts to connect, or applies the cooldown, while the
\* stale handle is still cached.
VisitedKeepsStale(had, stale, cooling, out) ==
    LET s0 == IF had THEN <<"healthy">> ELSE <<"absent">>
    IN IF had /\ ~stale THEN s0
       ELSE IF cooling THEN Append(s0, "unhealthy-cooldown")
       ELSE IF out = "producer" THEN s0 \o <<"connecting", "healthy">>
       ELSE s0 \o <<"connecting", "absent">>

\* The connection states get_producer goes through: "healthy" while a handle
\* is cached, "absent" once self.producer is None, "unhealthy-cooldown" when
\* the call is rejected by the cooldown, "connecting" while _create_producer
\* runs, then "healthy" with the handle stored or "absent" when
\* _create_producer raised (or returned None).
Visited(had, stale, cooling, out) ==
    LET s0 == IF had THEN <<"healthy">> ELSE <<"absent">>
        s1 == IF stale THEN Append(s0, "absent") ELSE s0
    IN IF had /\ ~stale THEN s0
       ELSE IF cooling THEN Append(s1, "unhealthy-cooldown")
       ELSE IF out = "producer" THEN s1 \o <<"connecting", "healthy">>
       ELSE s1 \o <<"connecting", "absent">>

\* A send_message that wraps every failure as "send failed".
SendOutcomeWrapsAll(got, pub) ==
    IF got = "handle" THEN pub ELSE "send failed"

\* The outcome of send_message: got is what get_producer did ("handle",
\* "None", or the 503 it raised: "cooldown", "unavailable"), pub what the
\* publish and the bounded wait for its acknowledgment did.
SendOutcome(got, pub) ==
    IF got \in {"cooldown", "unavailable"} THEN got
    ELSE IF got = "None" THEN "send failed"
    ELSE pub

\* The outcome a caller of op sees.
Outcome(op, got, pub) ==
    IF op = "send" THEN SendOutcome(got, pub)
    ELSE IF got \in {"cooldown", "unavailable"} THEN got ELSE "ok"

\* get_producer. probe: what bootstrap_connected() of the cached handle does
\* ("true", "false", "raise"); fails, lat: as for CreateProducer; fresh: what
\* bootstrap_connected() of the handle built returns ("true", "false").
\* send_message is get_producer followed by the publish (pub).
GetProducerBody(op, probe, fails, lat, fresh, pub) ==
    LET had == producer # 0
        stale == had /\ ProbeDiscards(probe)
        cp == CreateProducer(fails, lat)
        base == [NoCall EXCEPT !.op = op, !.had = had,
                               !.probe = IF had THEN probe ELSE "none",
                               !.nearFail = sinceFail < connection_cooldown,
                               !.nearExhaust = sinceExhaust < connection_cooldown,
                               !.wasPending = pending,
                               !.path = Visited(had, stale, InCooldown, cp.out)]
    IN IF had /\ ~stale
       THEN /\ fails = 0 /\ lat = 0 /\ fresh = "true"
            /\ call' = [base EXCEPT !.res = Outcome(op, "handle", pub), !.ret = producer,
                                    !.pubs = IF op = "send" THEN 1 ELSE 0]
            /\ UNCHANGED <<producer, sinceAttempt, handles, sinceFail, sinceExhaust, pending>>
       ELSE IF InCooldown
       THEN /\ fails = 0 /\ lat = 0 /\ fresh = "true" /\ pub = "sent"
            /\ producer' = 0
            /\ call' = [base EXCEPT !.res = Outcome(op, "cooldown", pub)]
            /\ UNCHANGED <<sinceAttempt, handles, sinceFail, sinceExhaust, pending>>
       ELSE /\ fails <= retry_attempts
            /\ retry_attempts <= 0 => (lat = 0 /\ pub = "sent")
            /\ sinceAttempt' = AttemptAge(cp.elapsed)
            /\ sinceFail' = IF cp.failed > 0 THEN Later(0, cp.tail)
                            ELSE Later(sinceFail, cp.elapsed)
            /\ pending' = IF cp.opened > 0 THEN cp.out = "raise" ELSE pending
            /\ sinceExhaust' = IF cp.out = "raise" THEN 0
                               ELSE Later(sinceExhaust, cp.elapsed)
            /\ IF cp.out = "producer"
               THEN /\ handles < MaxHandles
                    /\ handles' = handles + 1
                    /\ producer' = handles + 1
                    /\ call' = [base EXCEPT !.opened = cp.opened, !.ret = handles + 1,
                                            !.fresh = fresh,
                                            !.res = Outcome(op, "handle", pub),
                                            !.pubs = IF op = "send" THEN 1 ELSE 0]
               ELSE IF cp.out = "None"
               THEN /\ fresh = "true"
                    /\ producer' = 0
                    /\ UNCHANGED handles
                    /\ call' = [base EXCEPT !.res = Outcome(op, "None", pub)]
               ELSE /\ pub = "sent" /\ fresh = "true"
                    /\ producer' = 0
                    /\ UNCHANGED handles
                    /\ call' = [base EXCEPT !.opened = cp.opened,
                                            !.res = Outcome(op, "unavailable", pub)]

GetProducer(probe, fails, lat, fresh) ==
    /\ GetProducerBody("get", probe, fails, lat, fresh, "sent")
    /\ UNCHANGED retry_attempts
    /\ UNCHANGED <<pvars, report, xvars>>

\* send_message, as POST /transactions/ calls it with topic 'transactions'.
SendMessage(probe, fails, lat, fresh, pub) ==
    /\ GetProducerBody("send", probe, fails, lat, fresh, pub)
    /\ UNCHANGED retry_attempts
    /\ UNCHANGED <<pvars, report, xvars>>

\* A readiness route that reports "healthy" whatever the manager says.
OverallAlwaysHealthy(kafka_status) == "healthy"

\* GET /health: the overall status derived from kafka_status.
OverallStatus(kafka_status) ==
    IF kafka_status = "healthy" THEN "healthy" ELSE "degraded"

\* A health check that keeps the producer it built for the probe.
HealthCheckCaching(probe, fails, lat) ==
    LET cp == CreateProducer(fails, lat)
        st == IF producer = 0 THEN (IF cp.out = "producer" THEN "healthy" ELSE "unhealthy")
              ELSE (IF probe = "raise" THEN "unhealthy" ELSE "healthy")
    IN /\ producer = 0 => probe = "true" /\ fails <= retry_attempts
       /\ producer # 0 => fails = 0
       /\ lat = 0
       /\ producer' = IF producer = 0 /\ cp.out = "producer" THEN 1 ELSE producer
       /\ call' = [NoCall EXCEPT !.op = "health", !.had = producer # 0, !.res = st,
                                 !.overall = OverallStatus(st)]
       /\ UNCHANGED <<sinceAttempt, sinceExhaust, sinceFail, retry_attempts, handles, pending>>
       /\ UNCHANGED <<pvars, report, xvars>>

\* GET /health calling health_check(): with no cached handle a throwaway
\* producer is built and closed; with one, bootstrap_connected() is called
\* on it. health_check never raises; the route derives the overall status.
HealthCheck(probe, fails, lat) ==
    LET cp == CreateProducer(fails, lat)
        base == [NoCall EXCEPT !.op = "health", !.had = producer # 0]
    IN /\ IF producer = 0
          THEN /\ probe = "true"
               /\ fails <= retry_attempts
               /\ retry_attempts <= 0 => lat = 0
               /\ sinceAttempt' = Later(sinceAttempt, cp.elapsed)
               /\ sinceExhaust' = Later(sinceExhaust, cp.elapsed)
               /\ sinceFail' = IF cp.failed > 0 THEN Later(0, cp.tail)
                               ELSE Later(sinceFail, cp.elapsed)
               /\ LET st == IF cp.out = "producer" THEN "healthy" ELSE "unhealthy"
                  IN call' = [base EXCEPT !.opened = cp.opened, !.res = st,
                                          !.overall = OverallStatus(st)]
          ELSE /\ fails = 0 /\ lat = 0
               /\ LET st == IF probe = "raise" THEN "unhealthy" ELSE "healthy"
                  IN call' = [base EXCEPT !.probe = probe, !.res = st,
                                          !.overall = OverallStatus(st)]
               /\ UNCHANGED <<sinceAttempt, sinceExhaust, sinceFail>>
       /\ UNCHANGED <<producer, retry_attempts, handles, pending>>
       /\ UNCHANGED <<pvars, report, xvars>>

\* GET /healthz: answers without reading the manager.
Healthz ==
    /\ call' = [NoCall EXCEPT !.op = "healthz", !.had = producer # 0, !.res = "ok"]
    /\ UNCHANGED <<producer, sinceAttempt, retry_attempts, handles, sinceFail, sinceExhaust,
                   pending>>
    /\ UNCHANGED <<pvars, report, xvars>>

\* A close() that lets the error of producer.close() escape.
CloseRaising(rel) ==
    /\ producer = 0 => rel = "true"
    /\ producer' = IF rel = "raise" THEN producer ELSE 0
    /\ call' = [NoCall EXCEPT !.op = "close", !.had = producer # 0,
                              !.probe = IF producer # 0 THEN rel ELSE "none",
                              !.res = IF rel = "raise" THEN "raise" ELSE "ok"]
    /\ UNCHANGED <<sinceAttempt, retry_attempts, handles, sinceFail, sinceExhaust, pending>>
    /\ UNCHANGED <<pvars, report, xvars>>

\* close(): the handle is released (rel = "raise": producer.close() raises,
\* which is logged) and forgotten; without a handle nothing is done.
Close(rel) ==
    /\ producer = 0 => rel = "true"
    /\ producer' = 0
    /\ call' = [NoCall EXCEPT !.op = "close", !.had = producer # 0,
                              !.probe = IF producer # 0 THEN rel ELSE "none",
                              !.res = "ok",
                              !.path = IF producer # 0 THEN <<"healthy", "absent">>
                                       ELSE <<"absent">>]
    /\ UNCHANGED <<sinceAttempt, retry_attempts, handles, sinceFail, sinceExhaust, pending>>
    /\ UNCHANGED <<pvars, report, xvars>>

CProbes == {"true", "false", "raise"}
Publish == {"sent", "send failed"}
Fresh == {"true", "false"}

CNext ==
    \/ Tick
    \/ \E probe \in CProbes, fails \in 0..default_retry_attempts, lat \in 0..MaxLatency,
          fresh \in Fresh : GetProducer(probe, fails, lat, fresh)
    \/ \E probe \in CProbes, fails \in 0..default_retry_attempts, lat \in 0..MaxLatency,
          fresh \in Fresh, pub \in Publish : SendMessage(probe, fails, lat, fresh, pub)
    \/ \E probe \in CProbes, fails \in 0..default_retry_attempts, lat \in 0..MaxLatency :
          HealthCheck(probe, fails, lat)
    \/ Healthz
    \/ \E rel \in {"true", "raise"} : Close(rel)

(* ============== get_producer, statement by statement =================== *)
\* KafkaConnectionManager has no lock: two threads calling get_producer on
\* the shared kafka_manager interleave between its statements. pc is the
\* statement a caller is at, res what its call did, built the handle its
\* _create_producer returned, legit (for a call the cooldown rejected)
\* whether a connection attempt had failed by then.
Callers == {1, 2}
NoCaller == [pc |-> "idle", res |-> "none", built |-> 0, legit |-> FALSE]

\* Lines 59-70: read the clock, and return the cached handle if there is one
\* and its probe does not raise.
REnter(i) ==
    /\ callers[i].pc = "idle"
    /\ callers' = [callers EXCEPT ![i] =
                      IF producer # 0
                      THEN [@ EXCEPT !.pc = "done", !.res = "ok"]
                      ELSE [@ EXCEPT !.pc = "entered"]]
    /\ UNCHANGED <<cvars, pvars, report, tev, tres>>

\* Lines 72-77: the cooldown test against last_connection_attempt.
RCheck(i) ==
    /\ callers[i].pc = "entered"
    /\ callers' = [callers EXCEPT ![i] =
                      IF InCooldown
                      THEN [@ EXCEPT !.pc = "done", !.res = "cooldown",
                                     !.legit = \E j \in Callers :
                                                  callers[j].res = "unavailable"]
                      ELSE [@ EXCEPT !.pc = "checked"]]
    /\ UNCHANGED <<cvars, pvars, report, tev, tres>>

\* Line 79: self.last_connection_attempt = current_time.
RStamp(i) ==
    /\ callers[i].pc = "checked"
    /\ sinceAttempt' = 0
    /\ callers' = [callers EXCEPT ![i].pc = "stamped"]
    /\ UNCHANGED <<producer, retry_attempts, handles, sinceFail, sinceExhaust, pending, call>>
    /\ UNCHANGED <<pvars, report, tev, tres>>

\* Lines 81-87: self.producer = self._create_producer(), or the 503.
RBuild(i, fails) ==
    /\ callers[i].pc = "stamped"
    /\ fails <= retry_attempts
    /\ LET cp == CreateProducer(fails, 0)
       IN IF cp.out = "producer"
          THEN /\ handles < MaxHandles
               /\ handles' = handles + 1
               /\ producer' = handles + 1
               /\ callers' = [callers EXCEPT ![i] =
                                 [@ EXCEPT !.pc = "done", !.res = "ok",
                                           !.built = handles + 1]]
          ELSE /\ callers' = [callers EXCEPT ![i] =
                                 [@ EXCEPT !.pc = "done", !.res = "unavailable"]]
               /\ UNCHANGED <<producer, handles>>
    /\ UNCHANGED <<sinceAttempt, retry_attempts, sinceFail, sinceExhaust, pending, call>>
    /\ UNCHANGED <<pvars, report, tev, tres>>

\* The clock moves between calls; the statements of a call in progress are
\* taken within one reading of it.
RTick ==
    /\ \A i \in Callers : callers[i].pc \in {"idle", "done"}
    /\ Tick

RNext ==
    \/ \E i \in Callers : REnter(i)
    \/ \E i \in Callers : RCheck(i)
    \/ \E i \in Callers : RStamp(i)
    \/ \E i \in Callers, fails \in 0..1 : RBuild(i, fails)
    \/ RTick

(* ===================== one call of the transformer ===================== *)
NoResult == [ok |-> FALSE, err |-> "none"]

TimeStrings ==
    {<<9>>, <<9, 15>>, <<9, 15, 30>>, <<23, 59>>, <<24, 0>>, <<9, 60>>, <<NaN, 15>>}

\* The RawEvents a call is given: date fields present or missing, in and
\* out of range, on and off the calendar; the time a string or another
\* JSON value (null, a number).
TransformInputs ==
    LET dates == {AllKeys, AllKeys \ {"time"}, AllKeys \ {"year"}}
                    \X {1899, 2023, 2024, 2101} \X {0, 2, 4, 12, 13}
                    \X {0, 28, 29, 30, 31, 32}
    IN {RawEvent(x[1], 1, 7, 4250, x[2], x[3], x[4], TRUE, t) :
            x \in dates, t \in TimeStrings}
       \cup {RawEvent(x[1], 1, 7, 4250, x[2], x[3], x[4], FALSE, <<>>) : x \in dates}

TransformCall ==
    /\ tres = NoResult
    /\ tres' = TransformIngestionFormat(tev, 1)
    /\ UNCHANGED <<tev, callers, pvars, cvars, report>>

(* ========================= the specifications ========================== *)
vars == <<pvars, cvars, report, xvars>>

\* No thread is inside get_producer and no transformer call is observed.
XInit == callers = [i \in Callers |-> NoCaller] /\ tev = EvGood /\ tres = NoResult

\* The consumption pipeline; the connection manager lives in another process.
Init ==
    /\ PInit /\ CInit /\ retry_attempts = default_retry_attempts /\ report = NoReport
    /\ XInit

Next == PNext

Spec == Init /\ [][Next]_vars

\* The connection manager of the ingestion service.
InitConn ==
    /\ CInit /\ PInit /\ log = <<EvGood, EvGood>> /\ useLoop = FALSE
    /\ report = NoReport
    /\ XInit

SpecConn == InitConn /\ [][CNext]_vars

\* The API process with its health route polled.
NextHealth ==
    \/ PNext
    \/ \E ok \in BOOLEAN : KafkaHealthCheck(ok)

SpecHealth == Init /\ [][NextHealth]_vars

\* Rows an earlier run left in the store: the purchase of EvGood persisted
\* twice under two identifiers (the outcome of two overlapping handlers).
PriorRows == {RowOf(Canonical(EvGood, 11).data), RowOf(Canonical(EvGood, 12).data)}

\* The consumption pipeline started on a store that holds PriorRows.
InitDup ==
    /\ log \in Logs
    /\ committed = 0
    /\ store = PriorRows
    /\ useLoop \in BOOLEAN
    /\ inst = 0
    /\ running = FALSE
    /\ subs = [c \in SubIds |-> NoSub]
    /\ owner = 0
    /\ wk = [c \in SubIds |-> NoWorker]
    /\ hs = [h \in HIds |-> NoHandler]
    /\ ninv = 0
    /\ ran = [h \in HIds |-> 0 - 1]
    /\ last = NoLast
    /\ crashes = 0
    /\ CInit /\ retry_attempts = default_retry_attempts /\ report = NoReport
    /\ XInit

SpecDup == InitDup /\ [][PNext]_vars

\* Two threads call get_producer once each on a manager with no handle
\* cached and a retry budget of one attempt.
InitRace ==
    /\ CInit /\ retry_attempts = 1
    /\ PInit /\ log = <<EvGood, EvGood>> /\ useLoop = FALSE
    /\ report = NoReport
    /\ XInit

SpecRace == InitRace /\ [][RNext]_vars

\* The transformer on every input of TransformInputs.
InitTransform ==
    /\ CInit /\ retry_attempts = default_retry_attempts
    /\ PInit /\ log = <<EvGood, EvGood>> /\ useLoop = FALSE
    /\ report = NoReport
    /\ callers = [i \in Callers |-> NoCaller]
    /\ tev \in TransformInputs
    /\ tres = NoResult

SpecTransform == InitTransform /\ [][TransformCall]_vars

(* ============================ properties =============================== *)
\* The record at offset o is persisted: it transforms and a row with its
\* composite is in the store.
Persisted(o) == DataAt(o, 0).ok /\ Matching(DataAt(o, 0).data) # {}

\* The record at offset o transforms and passes the referential check.
ValidRecord(o) == DataAt(o, 0).ok /\ ValidateUserAndCard(DataAt(o, 0).data).ok

\* The calls of a trace, without the marks of the worker's timeout.
Ops(trace) == SelectSeq(trace, LAMBDA x : x # "timeout")

CommitCalls == {"kcommit", "kcommit!"}

\* The traces of the invocations in flight and of the one that ended last.
Traces == {hs[h].trace : h \in HIds} \cup {last.trace}

\* C1: the committed offset only moves past records that are persisted:
\* every offset below the group's committed offset holds a record whose row
\* is in the store.
C1_CommittedOnlyPastPersisted ==
    \A o \in 0..(Len(log) - 1) : o < committed => Persisted(o)

\* C2: a record whose handler failed keeps its offset uncommitted, so no
\* valid record is lost: a valid record that is not in the store, and is not
\* being handled, is at or after the committed offset and will be delivered
\* again.
C2_FailedValidRecordStaysUncommitted ==
    \A o \in 0..(Len(log) - 1) :
        (ValidRecord(o) /\ ~Persisted(o) /\ ~\E h \in HIds : InFlight(h) /\ hs[h].off = o)
            => committed <= o

\* C3: the handler calls the offset commit only after the insert has
\* committed and been refreshed, or right after the duplicate check found a
\* row; an invocation that ends in a transformer, referential or
\* persistence failure has made no commit call.
C3_CommitOnlyAfterPersistOrDuplicate ==
    /\ \A h \in HIds : \A i \in 1..Len(hs[h].trace) : hs[h].trace[i] \notin CommitCalls
    /\ LET t == Ops(last.trace)
       IN /\ \A i \in 1..Len(t) :
                t[i] \in CommitCalls =>
                    \/ /\ i = 3 /\ t[1] = "open" /\ t[2] = "dupq"
                       /\ \E r \in store : r.id # last.h /\ RowKey(r) = KeyOf(DataAt(last.off, 0).data)
                    \/ /\ i > 3 /\ t[i - 1] = "refresh" /\ t[i - 2] = "dbcommit" /\ t[i - 3] = "add"
                       /\ \E r \in store : r.id = last.h
          /\ last.res \in {"ValueError", "TypeError", "ReferentialError", "PersistenceError",
                           "MultipleResultsFound"}
                => \A i \in 1..Len(t) : t[i] \notin CommitCalls
          /\ last.res \in {"inserted", "duplicate"} => t[Len(t) - 1] = "kcommit"

C3_Witness ==
    /\ last.res = "inserted"
    /\ Has(last.trace, "kcommit")
    /\ committed > 0

\* C4: when the handler runs on an event that an earlier run has inserted
\* (and no other record's row has the same composite), it takes the
\* duplicate path: it adds no row and makes the offset commit call right
\* after the duplicate query, which moves the committed offset unless the
\* call raises.
C4_SecondRunTakesDuplicatePath ==
    [][\A h \in HIds :
          LET mine == {r \in store : ran[r.id] = hs[h].off}
          IN (/\ hs[h].pc = "start"
              /\ hs'[h].pc # "start"
              /\ crashes' = crashes
              /\ Cardinality(mine) = 1
              /\ \A r \in store : DataOf(h).ok /\ RowKey(r) = KeyOf(DataOf(h).data) => r \in mine)
             => /\ store' = store
                /\ last'.h = h
                /\ Cardinality({r \in store' : RowKey(r) = KeyOf(DataOf(h).data)}) = 1
                /\ last'.res \in {"duplicate", "CommitError"}
                /\ Ops(last'.trace) \in {<<"open", "dupq", "kcommit", "close">>,
                                         <<"open", "dupq", "kcommit!", "rollback", "close">>}
                /\ last'.res = "duplicate" => committed' = CommitResult(h)]_vars

C4_Witness ==
    /\ last.res = "duplicate"
    /\ \E r \in store : r.id # last.h /\ ran[r.id] = last.off
    /\ Cardinality(store) = 1

\* C5: an invocation whose worker stopped waiting for it (the 30 s timeout)
\* persists and commits nothing afterwards: after the timeout no insert of
\* that invocation commits to the store and no offset commit of it succeeds.
C5_TimedOutHandlerIsAbandoned ==
    \A t \in Traces : \A i, j \in 1..Len(t) :
        (i < j /\ t[i] = "timeout") => t[j] \notin {"dbcommit", "kcommit"}

\* C6: records are handled one at a time: at most one handler invocation of
\* a consumer instance is in flight.
C6_OneHandlerAtATime ==
    \A g, h \in HIds :
        (InFlight(g) /\ InFlight(h) /\ subs[hs[g].w].inst = subs[hs[h].w].inst) => g = h

\* An event with a missing date/time key or with year, month or day out of
\* range.
BadDate(ev) ==
    \/ \E f \in DateKeys : f \notin ev.keys
    \/ ev.year < YearMin \/ ev.year > YearMax
    \/ ev.month < 1 \/ ev.month > 12
    \/ ev.day < 1 \/ ev.day > 31

\* C7: an event with a missing date/time key or an out-of-range year, month
\* or day is rejected by the transformer with a validation error before any
\* store or commit call: its invocation opens no session, adds no row and
\* makes no commit call.
C7_BadDateRejectedBeforeStore ==
    /\ \A h \in HIds :
          (InFlight(h) /\ BadDate(log[hs[h].off + 1]))
              => hs[h].pc = "start" /\ Ops(hs[h].trace) = <<>>
    /\ (last.h # 0 /\ BadDate(log[last.off + 1]))
          => /\ last.res = "ValueError"
             /\ Ops(last.trace) = <<>>
    /\ \A r \in store : ~BadDate(log[ran[r.id] + 1])

C7_Witness ==
    /\ last.res = "ValueError"
    /\ BadDate(log[last.off + 1])
    /\ \E f \in DateKeys : f \notin log[last.off + 1].keys

\* The event's user or card is absent from the store, or the card belongs
\* to another user.
RefInvalid(ev) ==
    \/ Str(ev.user) \notin Users
    \/ Str(ev.card) \notin CardIds
    \/ CardOwner(Str(ev.card)) # Str(ev.user)

\* C8: a well-formed, non-duplicate event whose user or card is missing, or
\* whose card belongs to another user, fails the referential check: the
\* invocation adds no row, rolls the session back and makes no commit call.
C8_ReferentialFailureWritesNothing ==
    /\ (/\ last.h # 0
        /\ DataAt(last.off, 0).ok
        /\ RefInvalid(log[last.off + 1])
        /\ ~Persisted(last.off))
          => /\ last.res = "ReferentialError"
             /\ ~Has(last.trace, "add")
             /\ \A i \in 1..Len(last.trace) : last.trace[i] \notin CommitCalls
             /\ Has(last.trace, "rollback")
    /\ \A r \in store : ~RefInvalid(log[ran[r.id] + 1])
    /\ \A h \in HIds :
          (InFlight(h) /\ DataOf(h).ok /\ RefInvalid(log[hs[h].off + 1])) => hs[h].pc = "start"

C8_Witness ==
    /\ last.res = "ReferentialError"
    /\ CardOwner(Str(log[last.off + 1].card)) # Str(log[last.off + 1].user)
    /\ Str(log[last.off + 1].card) \in CardIds

\* C9: a get_producer call that exhausts the retry budget fails with a
\* connectivity error; every later get_producer call made less than the
\* cooldown window after that failure fails fast and opens no connection;
\* the first call made once the window has passed opens a connection.
C9_CooldownAfterExhaustion ==
    call.op \in {"get", "send"} =>
        /\ (call.opened > 0 /\ call.ret = 0)
              => call.res = "unavailable" /\ call.opened = retry_attempts
        /\ call.nearExhaust => call.res = "cooldown" /\ call.opened = 0
        /\ (call.wasPending /\ ~call.nearExhaust) => call.opened >= 1

\* C10: with the default retry budget, get_producer fails fast only when a
\* connection attempt failed less than the cooldown window before the call;
\* a call that follows only successful connections is never rejected by the
\* cooldown.
C10_CooldownOnlyAfterFailure ==
    (/\ retry_attempts = default_retry_attempts
     /\ call.op \in {"get", "send"}
     /\ call.res = "cooldown") => call.nearFail

\* C11: get_producer only hands out live handles: a cached handle is
\* returned only when its liveness probe reported connected, a handle built
\* by the call only when the probe on it reported connected.
C11_OnlyLiveHandlesReturned ==
    (call.op \in {"get", "send"} /\ call.ret # 0) =>
        IF call.opened = 0 THEN call.probe = "true" ELSE call.fresh = "true"

C13_HealthCheckKeepsNoHandle ==
    call.op = "health" =>
        /\ call.res \in {"healthy", "unhealthy"}
        /\ ~call.had => producer = 0

C13_Witness ==
    /\ call.op = "health"
    /\ ~call.had
    /\ call.opened >= 1
    /\ call.res = "healthy"

\* C14: close() returns normally from every state, also when releasing the
\* producer raises; afterwards no handle is cached; a close() with no handle
\* cached (a second close) changes nothing of the manager.
C14_CloseIdempotent ==
    [][\A rel \in {"true", "raise"} :
          Close(rel) =>
             /\ producer' = 0
             /\ call'.res = "ok"
             /\ producer = 0 =>
                    UNCHANGED <<producer, sinceAttempt, retry_attempts, handles, sinceFail,
                                sinceExhaust, pending>>]_vars

C14_Witness ==
    /\ call.op = "close"
    /\ call.had
    /\ call.probe = "raise"
    /\ producer = 0

\* The processing loop of consumer c is alive.
LoopAlive(c) == wk[c].st \in {"poll", "wait"}

\* C15: start() takes effect only from stopped and spawns exactly one
\* processing loop: a consumer instance never has two subscriptions with a
\* live loop each.
C15_OneLoopPerInstance ==
    \A c, d \in SubIds :
        (subs[c].inst # 0 /\ subs[c].inst = subs[d].inst /\ LoopAlive(c) /\ LoopAlive(d))
            => c = d

\* The stop flag of the instance of consumer w is not raised.
FlagUp(w) == inst # 0 /\ subs[w].inst = inst /\ running

\* C16: once the stop flag is raised the loop starts no handler: a record
\* pulled with the flag raised is dropped, nothing is committed for it and
\* the loop exits; raising the flag leaves the handlers in flight as they are.
C16_CooperativeStop ==
    [][/\ \A h \in HIds :
            (hs[h].pc = "none" /\ hs'[h].pc # "none") => FlagUp(hs'[h].w)
       /\ \A w \in SubIds :
            (wk[w].st = "poll" /\ subs'[w].position > 0
                /\ subs'[w].position # subs[w].position /\ ~FlagUp(w))
               => (wk'[w].st = "dead" /\ hs' = hs /\ committed' = committed /\ store' = store)
       /\ (running /\ ~running' /\ crashes' = crashes) => hs' = hs]_vars

C16_Witness ==
    \E w \in SubIds :
        /\ wk[w].st = "dead"
        /\ subs[w].position > 0
        /\ ninv = 0
        /\ crashes = 0

\* C17: an error of the handler (validation, referential, persistence,
\* commit, timeout) does not end the worker: whenever a worker stops
\* waiting for a handler it goes back to polling for the next record.
C17_FailuresIsolated ==
    [][\A w \in SubIds :
          (wk[w].st = "wait" /\ wk'[w].st # "wait" /\ crashes' = crashes)
             => wk'[w].st = "poll"]_vars

C17_Witness ==
    /\ NSubs = 1
    /\ last.res \in {"ValueError", "TypeError", "ReferentialError", "PersistenceError"}
    /\ \E h \in HIds : InFlight(h) /\ hs[h].off = last.off + 1 /\ wk[hs[h].w].st = "wait"

\* C18: the consumer_details GET /health of the API answers are the
\* current values of the process-wide consumer instance: initialized,
\* running, thread_alive and consumer_created as they are at the poll.
C18_HealthReportsLiveState ==
    report.kind = "details" => report.details = report.live

\* C19: GET /healthz answers {status: ok} in every connection state and
\* leaves the manager untouched; GET /health always answers, with status
\* "healthy" exactly when health_check reports kafka_status healthy and
\* "degraded" otherwise.
C19_HealthEndpoints ==
    [][/\ Healthz =>
            /\ call'.res = "ok"
            /\ call'.opened = 0
            /\ UNCHANGED <<producer, sinceAttempt, retry_attempts, handles, sinceFail,
                           sinceExhaust, pending>>
       /\ call'.op = "health" =>
            /\ call'.res \in {"healthy", "unhealthy"}
            /\ call'.overall \in {"healthy", "degraded"}
            /\ call'.overall = "healthy" <=> call'.res = "healthy"]_vars

C19_Witness ==
    /\ call.op = "health"
    /\ call.res = "unhealthy"
    /\ call.overall = "degraded"

\* C20: each commit covers exactly the record being handled: whenever the
\* committed offset of the partition changes, the handler that just ended
\* was handling the record at the old committed offset and the new
\* committed offset is that record's offset plus one.
C20_CommitCoversHandledRecord ==
    [][committed' # committed =>
          (committed = last'.off /\ committed' = last'.off + 1)]_vars

\* C21: when the duplicate query finds a persisted row with the record's
\* (user, card, amount, timestamp), the handler makes the offset commit call
\* right after the query and ends: it runs no user/card query, adds nothing,
\* and the store is unchanged; it returns normally unless the commit raises.
C21_DuplicatePathSkipsValidationAndInsert ==
    [][\A h \in HIds :
          (/\ hs[h].pc = "start"
           /\ hs'[h].pc # "start"
           /\ crashes' = crashes
           /\ DataOf(h).ok
           /\ Cardinality({r \in store : RowKey(r) = KeyOf(DataOf(h).data)}) = 1)
             => /\ last'.h = h
                /\ store' = store
                /\ ~Has(last'.trace, "userq") /\ ~Has(last'.trace, "cardq")
                /\ ~Has(last'.trace, "add")
                /\ \/ last'.res = "duplicate" /\ Has(last'.trace, "kcommit")
                   \/ last'.res = "CommitError" /\ Has(last'.trace, "kcommit!")]_vars

C21_Witness ==
    /\ last.res = "duplicate"
    /\ ~Has(last.trace, "userq")
    /\ \E r \in store : ran[r.id] # last.off /\ RowKey(r) = KeyOf(DataAt(last.off, 0).data)

\* C22: a record handled by two invocations at once (redelivered while its
\* first handler is still running) is persisted at most once: the store
\* never holds two rows inserted for the same offset.
C22_NoCheckThenWriteRace ==
    \A o \in 0..(Len(log) - 1) : Cardinality({r \in store : ran[r.id] = o}) <= 1

\* C23: a worker handles the records of the partition one after the other:
\* the handler of the next record does not start before the handler the
\* worker bridged last has ended.
C23_NextHandlerAfterPreviousEnded ==
    \A g, h \in HIds :
        (InFlight(g) /\ InFlight(h) /\ hs[g].w = hs[h].w /\ hs[g].off < hs[h].off) => FALSE

\* C24: every offset commit call is executed by the worker thread that
\* iterates the subscription, whichever bridging mode is in use.
C24_CommitOnWorkerThreadOnly ==
    (\E i \in 1..Len(last.trace) : last.trace[i] \in CommitCalls)
        => HandlerThread(useLoop) = "worker"

\* C25: stop() can always run to its end and interrupts nothing: it clears
\* the running flag, closes the subscription and returns after the bounded
\* join, whether or not a handler is in flight; every handler in flight is
\* left exactly where it was, and stop itself writes neither the store nor
\* the offset cursor.
C25_StopTerminatesWithoutInterrupting ==
    [][/\ inst # 0 => ENABLED StopTransactionConsumer
       /\ StopTransactionConsumer
            => /\ ~running'
               /\ inst' = 0
               /\ CurOf(inst) # 0 => subs'[CurOf(inst)].st = "closed"
               /\ hs' = hs
               /\ wk' = wk
               /\ store' = store
               /\ committed' = committed]_vars

C25_Witness ==
    /\ inst = 0
    /\ ~running
    /\ crashes = 0
    /\ \E h \in HIds : InFlight(h) /\ hs[h].pc # "start" /\ subs[hs[h].w].st = "closed"

\* C26: a get_producer call that builds a connection makes at most
\* retry_attempts attempts, stops at the first one that succeeds and returns
\* its handle, sleeps retry_delay between consecutive attempts only (so the
\* call lasts (attempts - 1) delays plus the attempts themselves), and raises
\* "unavailable" with no handle cached once the last attempt has failed.
C26_BoundedRetryBudget ==
    [][\A probe \in CProbes, fails \in 0..default_retry_attempts, lat \in 0..MaxLatency,
          fresh \in Fresh :
          (GetProducer(probe, fails, lat, fresh) /\ call'.opened > 0)
             => /\ call'.opened <= retry_attempts
                /\ call'.opened = IF fails < retry_attempts THEN fails + 1 ELSE retry_attempts
                /\ sinceAttempt'
                      = Later(0, call'.opened * lat + (call'.opened - 1) * retry_delay)
                /\ fails < retry_attempts
                      => (call'.res = "ok" /\ call'.ret # 0 /\ producer' = call'.ret)
                /\ fails >= retry_attempts
                      => (call'.res = "unavailable" /\ call'.ret = 0 /\ producer' = 0)]_vars

C26_Witness ==
    /\ call.op = "get"
    /\ retry_attempts = default_retry_attempts
    /\ call.opened = default_retry_attempts
    /\ call.res = "unavailable"
    /\ sinceAttempt = (default_retry_attempts - 1) * retry_delay

\* C27: while the manager is inside the cooldown window that follows a
\* get_producer call whose attempts all failed, no get_producer, send_message
\* or health_check call opens a connection to the broker.
C27_NoConnectionDuringCooldown ==
    [][\A probe \in CProbes, fails \in 0..default_retry_attempts, lat \in 0..MaxLatency,
          fresh \in Fresh, pub \in Publish :
          (/\ pending
           /\ InCooldown
           /\ \/ GetProducer(probe, fails, lat, fresh)
              \/ SendMessage(probe, fails, lat, fresh, pub)
              \/ HealthCheck(probe, fails, lat))
             => call'.opened = 0]_vars

\* The state changes the calls of the manager made: consecutive states of a path.
Changes(path) == {<<path[i], path[i + 1]>> : i \in 1..(Len(path) - 1)}

ConnectionStates == {"absent", "connecting", "healthy", "unhealthy-cooldown"}

ListedChanges ==
    {<<"absent", "connecting">>, <<"connecting", "healthy">>, <<"healthy", "absent">>,
     <<"absent", "unhealthy-cooldown">>}

C29_HandleSwapAtomic ==
    /\ Cardinality({i \in Callers : callers[i].built # 0}) <= 1
    /\ \A i \in Callers : callers[i].built # 0 => producer = callers[i].built
    /\ \A i \in Callers : callers[i].res = "cooldown" => callers[i].legit

\* The inputs C30 calls invalid.
InvalidInput(ev) ==
    \/ \E f \in DateKeys : f \notin ev.keys
    \/ ev.year < YearMin \/ ev.year > YearMax
    \/ ev.month < 1 \/ ev.month > 12
    \/ ev.day < 1 \/ ev.day > 31
    \/ ~ev.timeIsStr
    \/ Len(ev.time) < 2
    \/ ev.time[1] = NaN \/ ev.time[2] = NaN
    \/ ~ValidClock(ev.time[1], ev.time[2])
    \/ ~ValidCalendarDate(ev.year, ev.month, ev.day)

\* C30: the transformer raises a validation error (ValueError) exactly on
\* the invalid inputs, returns a record on every other input, and raises
\* no other kind of error.
C30_FailsExactlyOnInvalidInput ==
    tres # NoResult
        => /\ ~tres.ok <=> InvalidInput(tev)
           /\ ~tres.ok => tres.err = "ValueError"

\* C31: the record returned for a valid RawEvent has transactionDate
\* year-month-dayThour:minute:00 of the event, the event's amount, type
\* PURCHASE, status PENDING, currency USD, country US, and the string form
\* of the numeric user and card ids.
C31_CanonicalMapping ==
    (tres # NoResult /\ tres.ok)
        => /\ tres.data.transactionDate
                 = <<tev.year, tev.month, tev.day, tev.time[1], tev.time[2], 0>>
           /\ tres.data.amount = tev.amount
           /\ tres.data.transactionType = "PURCHASE"
           /\ tres.data.status = "PENDING"
           /\ tres.data.currency = "USD"
           /\ tres.data.merchantCountry = "US"
           /\ tres.data.userId = "1" /\ tev.user = 1
           /\ tres.data.creditCardId = "7" /\ tev.card = 7

C31_Witness ==
    /\ tres # NoResult
    /\ tres.ok
    /\ tev.year = 2024 /\ tev.month = 2 /\ tev.day = 29
    /\ tev.time = <<9, 15, 30>>
    /\ tres.data.transactionDate = <<2024, 2, 29, 9, 15, 0>>

\* The event invocation id was started for.
EventOf(id) == log[ran[id] + 1]

TimestampOf(ev) ==
    <<ev.year, ev.month, ev.day, ev.time[1], ev.time[2],
      IF Len(ev.time) >= 3 THEN ev.time[3] ELSE 0>>

\* C33: a record is treated as a duplicate only of a persisted record for
\* the same user, card and amount whose timestamp is equal to the second;
\* events that differ in the seconds of their time of day are both persisted.
C33_DuplicateOnlyAtEqualSecond ==
    last.res = "duplicate"
        => \E r \in store :
              /\ RowKey(r) = KeyOf(DataAt(last.off, 0).data)
              /\ TimestampOf(EventOf(r.id)) = TimestampOf(log[last.off + 1])

\* C34: whatever start and stop calls were made, every open subscription is
\* the one the live consumer instance holds in self.consumer: none created
\* by an earlier start is left open, and none is polled by a second thread.
C34_NoOrphanSubscription ==
    \A c \in SubIds :
        subs[c].st = "open" => (inst # 0 /\ subs[c].inst = inst /\ c = CurOf(inst))

\* C35: the duplicate check answers found / not found on every store, also
\* one that holds several rows with the record's composite: no handler ends
\* with the check having raised, and a handler that met matching rows took
\* the duplicate path.
C35_DuplicateCheckTotal ==
    /\ last.res # "MultipleResultsFound"
    /\ (last.h # 0 /\ DataAt(last.off, 0).ok
           /\ Matching(DataAt(last.off, 0).data) \cap PriorRows # {})
          => last.res \in {"duplicate", "CommitError"}

\* C36: a start() whose KafkaConsumer construction raises, on a consumer
\* that is not running, leaves the flag false, spawns no worker and stores
\* no subscription; the next start() then opens one fresh subscription with
\* one polling worker, as a first start does.
C36_FailedStartLeavesStopped ==
    [][/\ (StartTransactionConsumer(FALSE) /\ ~running)
            => /\ ~running'
               /\ subs' = subs /\ wk' = wk /\ hs' = hs
               /\ CurOf(inst)' = 0
       /\ (StartTransactionConsumer(TRUE) /\ ~running /\ inst # 0)
            => /\ running'
               /\ inst' = inst
               /\ CurOf(inst)' = NSubs + 1
               /\ subs'[NSubs + 1] = [st |-> "open", inst |-> inst, position |-> 0 - 1]
               /\ wk'[NSubs + 1] = [st |-> "poll", h |-> 0]
               /\ \A c \in SubIds \ {NSubs + 1} : subs'[c] = subs[c] /\ wk'[c] = wk[c]]_vars

C36_Witness ==
    /\ inst # 0
    /\ ~running
    /\ CurOf(inst) = 0
    /\ crashes = 0
    /\ \A c \in SubIds : wk[c].st = "unborn"

\* C37: for every retry budget, a get_producer call that returns normally
\* returns a handle, and that handle is the cached one.
C37_NormalReturnHasHandle ==
    (call.op = "get" /\ call.res = "ok") => (call.ret # 0 /\ producer = call.ret)

\* C38: after a get_producer (or the send_message built on it) that failed
\* by cooldown or by an exhausted budget no handle is cached; a handle is
\* cached only if the latest connection build succeeded and produced it, the
\* latest call was not a close(), and if the probe of the latest call raised
\* the handle is one that call built afterwards.
C38_CachedHandleOnFailure ==
    /\ (call.op \in {"get", "send"} /\ call.res \in {"cooldown", "unavailable"})
          => producer = 0
    /\ producer # 0
          => /\ ~pending
             /\ producer = handles
             /\ call.op # "close"
             /\ (call.op \in {"get", "send"} /\ call.probe = "raise") => call.opened > 0

C38_Witness ==
    /\ call.op = "get"
    /\ call.had
    /\ call.probe = "raise"
    /\ call.res = "cooldown"
    /\ producer = 0
    /\ handles > 0

\* How often op occurs in a trace.
Count(trace, op) == Cardinality({i \in 1..Len(trace) : trace[i] = op})

\* C39: a handler that got past the transformer opened one session; when it
\* has returned or raised the session was closed exactly once, as its last
\* call; on every failing path the call before the close is a rollback, on
\* the two successful paths there is none; a handler still running has not
\* closed its session.
C39_SessionDiscipline ==
    /\ \A h \in HIds : ~Has(hs[h].trace, "close")
    /\ LET t == Ops(last.trace)
       IN /\ (last.h # 0 /\ last.res \notin {"ValueError", "TypeError"})
                => (t[1] = "open" /\ Count(t, "open") = 1)
          /\ Has(t, "open")
                => /\ Count(t, "close") = 1
                   /\ t[Len(t)] = "close"
                   /\ last.res \notin {"inserted", "duplicate"}
                         => (t[Len(t) - 1] = "rollback" /\ Count(t, "rollback") = 1)
                   /\ last.res \in {"inserted", "duplicate"} => ~Has(t, "rollback")

C39_Witness ==
    /\ last.res = "CommitError"
    /\ Ops(last.trace) = <<"open", "dupq", "userq", "cardq", "add", "dbcommit", "refresh",
                           "kcommit!", "rollback", "close">>

====
